---- MODULE Spec2Model ----
(***************************************************************************)
(* Verification model of cortex/utils.py: the ROI voxel rasterizer         *)
(* (get_roi_masks), the geodesic disc sampler (get_tissots_indicatrix),    *)
(* the areal flatmap distortion (get_flatmap_distortion) and the vertex    *)
(* adjacency builders (get_curvature's faces map, make_surface_graph).     *)
(* Array indices are 0-based as in the source; arrays are functions on     *)
(* 0..n-1 and Python lists are sequences.                                  *)
(***************************************************************************)
EXTENDS Integers, Sequences, FiniteSets, TLC

VARIABLES
  \* ---- get_roi_masks ----
  rsub,        \* the subject's surfaces and ROI pack (surfs.getVTK, get_roipack)
  roiArg,      \* the roiList argument as passed: "None", a name, or a list
  overlapOpt,  \* the overlapOpt argument
  Dst,         \* the Dst argument
  voxIdx,      \* get_vox_dist: nearest fiducial vertex of each voxel
  voxDst,      \* get_vox_dist: distance to it
  roiList,     \* roiList after normalisation
  tmpMask,     \* tmpMask[v][ir][h]
  mask,        \* the returned mask, flattened
  roiIdx,      \* the returned name -> number mapping
  ncut,        \* the printed number of cut voxels
  rpc,         \* position in get_roi_masks
  \* ---- get_tissots_indicatrix ----
  tsub,        \* the subject's fiducial surfaces: tsub.lh, tsub.rh
  radius,      \* the radius argument
  spacing,     \* the spacing argument
  maxfails,    \* the maxfails argument
  hem,         \* the hemisphere being sampled: "lh", "rh", or "done"
  G,           \* the surface graph of the hemisphere
  tissot_array,\* the hemisphere's accumulator, in units of 1/Scale
  numfails,    \* the failure counter
  cnum,        \* the number of discs painted
  centers,     \* the accepted centers
  centervert,  \* the candidate drawn last (-1: none yet)
  recent,      \* history: outcomes of the last <= maxfails draws (TRUE: accepted)
  attempts,    \* history: number of candidates drawn in this hemisphere
  tissots,     \* the returned accumulators
  allcenters,  \* the returned center lists
  \* ---- get_flatmap_distortion(type="areal") ----
  dsub,        \* the subject's surfaces: dsub.lh, dsub.rh (fiducial and flat)
  dhem,        \* the hemisphere being processed: "lh", "rh", or "done"
  dpc,         \* position in the hemisphere's computation
  fidareas,    \* triangle areas on the fiducial surface
  flatareas,   \* triangle areas on the flat surface
  vertratios,  \* the per-vertex ratio array
  distortions, \* the returned list
  \* ---- vertex adjacency ----
  trilist,     \* a triangle list
  faces,       \* get_curvature's neighbour map for it
  graph        \* make_surface_graph's graph for it

varsRoi == <<rsub, roiArg, overlapOpt, Dst, voxIdx, voxDst, roiList,
             tmpMask, mask, roiIdx, ncut, rpc>>

varsTis == <<tsub, radius, spacing, maxfails, hem, G, tissot_array, numfails,
             cnum, centers, centervert, recent, attempts, tissots, allcenters>>

varsDist == <<dsub, dhem, dpc, fidareas, flatareas, vertratios, distortions>>

varsAdj == <<trilist, faces, graph>>

vars == <<varsRoi, varsTis, varsDist, varsAdj>>

(***************************************************************************)
(* Generic helpers on sets, sequences and 0-based arrays.                  *)
(***************************************************************************)
SetMin(S) == CHOOSE x \in S : \A y \in S : x <= y

SetMax(S) == CHOOSE x \in S : \A y \in S : y <= x

RECURSIVE SortedSeq(_)
\* np.unique / np.nonzero: the members of a set in ascending order
SortedSeq(S) == IF S = {} THEN << >>
                ELSE <<SetMin(S)>> \o SortedSeq(S \ {SetMin(S)})

\* the set of vertex indices a triangle list mentions (np.unique(polys))
Unique(polys) == UNION { {polys[i][1], polys[i][2], polys[i][3]} : i \in 1..Len(polys) }

Range(s) == { s[i] : i \in 1..Len(s) }

(***************************************************************************)
(* get_roi_masks: inputs.                                                  *)
(***************************************************************************)
\* number of voxels of the reference volume
NVox == 2

Voxels == 0..(NVox - 1)

\* the default of the Dst argument
DstDefault == 2

\* distances get_vox_dist can report in the model: below, at and above Dst
VoxDists == {DstDefault - 1, DstDefault}

\* Subjects. ptsL/ptsR: vertex count of each hemisphere's surface;
\* polysL/polysR: the flat surface's triangles, in the hemisphere's own
\* indices; names: rois.names; rois: ROI name -> vertex indices in VALID
\* vertex space.
\* RSubjFull has no medial wall; in RSubjMedial the left vertex 0 lies in no
\* flat triangle, so valid vertex i is fiducial vertex i+1.
RSubjFull ==
  [ ptsL |-> 3, ptsR |-> 3,
    polysL |-> << <<0, 1, 2>> >>, polysR |-> << <<0, 1, 2>> >>,
    names |-> <<"A", "B">>,
    rois |-> [ A |-> {0, 1, 4}, B |-> {1, 2, 4, 5} ] ]

RSubjMedial ==
  [ ptsL |-> 4, ptsR |-> 3,
    polysL |-> << <<1, 2, 3>> >>, polysR |-> << <<0, 1, 2>> >>,
    names |-> <<"A", "B">>,
    rois |-> [ A |-> {0, 1, 3}, B |-> {1, 2, 5} ] ]

RSubjects == {RSubjFull, RSubjMedial}

RoiNames(s) == DOMAIN s.rois

\* The requestable names: the pack's ROIs and the catch-all.
ReqNames(s) == RoiNames(s) \cup {"Cortex"}

\* Request lists: non-empty lists of distinct names (each region is requested
\* at most once, the catch-all included).
ReqLists(s) ==
  { l \in UNION { [1..n -> ReqNames(s)] : n \in 1..Cardinality(ReqNames(s)) } :
      \A i, j \in DOMAIN l : i # j => l[i] # l[j] }

\* The roiList argument: None, one name, or a list of names.
RoiArgs(s) ==
  {[kind |-> "None"]}
    \cup { [kind |-> "str", name |-> n] : n \in ReqNames(s) }
    \cup { [kind |-> "list", list |-> l] : l \in ReqLists(s) }

\* str.lower() on the names of the model
Lower(name) == IF name = "Cortex" THEN "cortex" ELSE name

(***************************************************************************)
(* get_roi_masks: the computation.                                         *)
(***************************************************************************)
\* surfs.getVTK(subject, "flat", merge=True): the two hemispheres' triangles
\* in one list, the right hemisphere's indices shifted by the left count
MergedPolys(s) ==
  s.polysL \o [ i \in 1..Len(s.polysR) |->
                  << s.polysR[i][1] + s.ptsL, s.polysR[i][2] + s.ptsL,
                     s.polysR[i][3] + s.ptsL >> ]

\* get_roipack(remove_medial=True): valid = np.unique(polys), as a 0-based array
vertIdxOf(s) ==
  LET sq == SortedSeq(Unique(MergedPolys(s)))
  IN [ i \in 0..(Len(sq) - 1) |-> sq[i + 1] ]

\* nVerts = np.max(coords.shape)
nVertsOf(s) == s.ptsL + s.ptsR

\* nL = len(np.unique(L[1]))
nLOf(s) == Cardinality(Unique(s.polysL))

\* Lmask = (voxIdx < nL), at voxel v
Lmask(s, vi, v) == vi[v] < nLOf(s)

\* Rmask = np.logical_not(Lmask), at voxel v
Rmask(s, vi, v) == ~Lmask(s, vi, v)

\* CxMask = (voxDst < Dst), at voxel v
CxMask(vd, d, v) == vd[v] < d

\* (mutant) the ROI's valid-space indices used as fiducial indices
roiIdxS2Identity(s, roi) == s.rois[roi]

\* roiIdxS2: the ROI's vertices translated from valid vertex space to the
\* space of all fiducial vertices (roiIdxB2[vertIdx] = roiIdxB1)
roiIdxS2(s, roi) ==
  LET vertIdx == vertIdxOf(s)
  IN { vertIdx[i] : i \in s.rois[roi] }

\* roiIdxB3, at voxel v: whether the voxel is a candidate of the ROI
roiIdxB3(s, roi, vi, v) ==
  IF Lower(roi) = "cortex"
  THEN TRUE
  ELSE vi[v] \in roiIdxS2(s, roi)

\* roiList normalisation: None -> rois.names, a string -> a one-name list
NormRoiList(s, arg) ==
  IF arg.kind = "None" THEN s.names
  ELSE IF arg.kind = "str" THEN <<arg.name>>
  ELSE arg.list

RoiIdxs(rl) == 0..(Len(rl) - 1)

\* tmpMask[v,ir,h] = np.all([roiIdxB3, Lmask or Rmask, CxMask])
RasterAt(s, rl, vi, vd, d, v, ir, h) ==
  /\ CxMask(vd, d, v)
  /\ IF h = 0 THEN Lmask(s, vi, v) ELSE Rmask(s, vi, v)
  /\ roiIdxB3(s, rl[ir + 1], vi, v)

\* First: all ROI voxels into tmpMask
Rasterized(s, rl, vi, vd, d) ==
  [ v \in Voxels |->
      [ ir \in RoiIdxs(rl) |->
          [ h \in 0..1 |-> RasterAt(s, rl, vi, vd, d, v, ir, h) ] ] ]

roiListL(rl) == [ i \in 1..Len(rl) |-> Lower(rl[i]) ]

\* roiListL.index('cortex'), 0-based
cIdxOf(rl) == SetMin({ i \in 1..Len(rl) : roiListL(rl)[i] = "cortex" }) - 1

\* (mutant) the cortex-precedence step left out
KillCortexOverlapNoop(rl, tm) == tm

\* Kill all overlap btw. "Cortex" and other ROIs
KillCortexOverlap(rl, tm) ==
  IF "cortex" \in Range(roiListL(rl))
  THEN LET cIdx == cIdxOf(rl)
       IN [ v \in Voxels |->
            [ ir \in RoiIdxs(rl) |->
              [ h \in 0..1 |->
                  IF ir = cIdx
                  THEN /\ ~(\E o \in RoiIdxs(rl) \ {cIdx} : tm[v][o][h])
                       /\ tm[v][cIdx][h]
                  ELSE tm[v][ir][h] ] ] ]
  ELSE tm

\* toCut = np.sum(tmpMask,axis=1)>1 : indexed [voxel][hemisphere]
toCutOf(rl, tm) ==
  [ v \in Voxels |->
      [ h \in 0..1 |->
          Cardinality({ ir \in RoiIdxs(rl) : tm[v][ir][h] }) > 1 ] ]

\* np.sum(toCut)
CutCount(tc) == Cardinality({ p \in Voxels \X (0..1) : tc[p[1]][p[2]] })

\* tmpMask[toCut] = False. toCut has shape (voxels, 2) and indexes the first
\* two axes of tmpMask, (voxels, ROIs): a True at [v][h] clears row
\* tmpMask[v][h][:], the ROI whose index equals the hemisphere index.
ApplyCut(rl, tm, tc) ==
  [ v \in Voxels |->
      [ ir \in RoiIdxs(rl) |->
          [ h \in 0..1 |->
              IF ir \in 0..1 /\ tc[v][ir] THEN FALSE ELSE tm[v][ir][h] ] ] ]

\* whether tmpMask[toCut] can raise IndexError: a numpy that checks the shape
\* of a boolean index requires toCut's (voxels, 2) to match tmpMask's leading
\* axes (voxels, ROIs); an older numpy indexes with toCut.nonzero() unchecked.
\* Which numpy runs the code is not the code's choice.
CutMayRaise(rl) == Len(rl) # 2

RECURSIVE FillMask(_, _, _)
\* the loop "for ir,roi in enumerate(roiList)" over its first n rounds
FillMask(rl, tm, n) ==
  IF n = 0 THEN [ v \in Voxels |-> 0 ]
  ELSE LET prev == FillMask(rl, tm, n - 1)
           ir == n - 1
           afterL == [ v \in Voxels |-> IF tm[v][ir][0] THEN -ir - 1 ELSE prev[v] ]
       IN [ v \in Voxels |-> IF tm[v][ir][1] THEN ir + 1 ELSE afterL[v] ]

\* roiIdx[roi] = ir+1
FillRoiIdx(rl) ==
  [ name \in Range(rl) |->
      SetMax({ i \in 1..Len(rl) : rl[i] = name }) ]

ZeroMask == [ v \in Voxels |-> 0 ]

EmptyMap == [ x \in {} |-> 0 ]

(***************************************************************************)
(* get_roi_masks: the state machine.                                       *)
(***************************************************************************)
RoiInit ==
  /\ rsub \in RSubjects
  /\ roiArg \in RoiArgs(rsub)
  /\ overlapOpt \in {"cut", "split"}
  /\ Dst = DstDefault
  /\ voxIdx \in [Voxels -> 0..(nVertsOf(rsub) - 1)]
  /\ voxDst \in [Voxels -> VoxDists]
  /\ roiList = << >>
  /\ tmpMask = << >>
  /\ mask = << >>
  /\ roiIdx = EmptyMap
  /\ ncut = -1
  /\ rpc = "start"

\* lines 265-285
Rasterize ==
  /\ rpc = "start"
  /\ roiList' = NormRoiList(rsub, roiArg)
  /\ tmpMask' = Rasterized(rsub, roiList', voxIdx, voxDst, Dst)
  /\ rpc' = "rasterized"
  /\ UNCHANGED <<rsub, roiArg, overlapOpt, Dst, voxIdx, voxDst, mask, roiIdx, ncut>>
  /\ UNCHANGED <<varsTis, varsDist, varsAdj>>

\* lines 286-299
CortexPrecedence ==
  /\ rpc = "rasterized"
  /\ tmpMask' = KillCortexOverlap(roiList, tmpMask)
  /\ mask' = ZeroMask
  /\ roiIdx' = EmptyMap
  /\ rpc' = "second"
  /\ UNCHANGED <<rsub, roiArg, overlapOpt, Dst, voxIdx, voxDst, roiList, ncut>>
  /\ UNCHANGED <<varsTis, varsDist, varsAdj>>

\* lines 300-311 and 314, when the boolean index is accepted
CutOverlap ==
  /\ rpc = "second"
  /\ overlapOpt = "cut"
  /\ LET tc == toCutOf(roiList, tmpMask)
     IN /\ ncut' = CutCount(tc)
        /\ tmpMask' = ApplyCut(roiList, tmpMask, tc)
  /\ mask' = FillMask(roiList, tmpMask', Len(roiList))
  /\ roiIdx' = FillRoiIdx(roiList)
  /\ rpc' = "returned"
  /\ UNCHANGED <<rsub, roiArg, overlapOpt, Dst, voxIdx, voxDst, roiList>>
  /\ UNCHANGED <<varsTis, varsDist, varsAdj>>

\* lines 300-306, when tmpMask[toCut] raises
CutIndexError ==
  /\ rpc = "second"
  /\ overlapOpt = "cut"
  /\ CutMayRaise(roiList)
  /\ ncut' = CutCount(toCutOf(roiList, tmpMask))
  /\ rpc' = "IndexError"
  /\ UNCHANGED <<rsub, roiArg, overlapOpt, Dst, voxIdx, voxDst, roiList,
                 tmpMask, mask, roiIdx>>
  /\ UNCHANGED <<varsTis, varsDist, varsAdj>>

\* lines 312-314: "elif overlapOpt=='split': pass", then "return mask,roiIdx"
SplitOverlap ==
  /\ rpc = "second"
  /\ overlapOpt # "cut"
  /\ rpc' = "returned"
  /\ UNCHANGED <<rsub, roiArg, overlapOpt, Dst, voxIdx, voxDst, roiList,
                 tmpMask, mask, roiIdx, ncut>>
  /\ UNCHANGED <<varsTis, varsDist, varsAdj>>

RoiNext ==
  \/ Rasterize
  \/ CortexPrecedence
  \/ CutOverlap
  \/ CutIndexError
  \/ SplitOverlap


(***************************************************************************)
(* get_roi_masks: claims.                                                  *)
(***************************************************************************)
\* candidate membership of voxel v in ROI ir, hemisphere h (steps 3-4)
Cand(v, ir, h) == RasterAt(rsub, roiList, voxIdx, voxDst, Dst, v, ir, h)

\* candidate membership after the cortex-precedence step (step 5)
CandPrec(v, ir, h) ==
  /\ Cand(v, ir, h)
  /\ (Lower(roiList[ir + 1]) = "cortex") =>
        ~(\E o \in RoiIdxs(roiList) : o # ir /\ Cand(v, o, h))

CutReturned == rpc = "returned" /\ overlapOpt = "cut"

\* voxel v is a candidate of more than one requested ROI in hemisphere h
\* after the cortex-precedence step
Overlapping(v, h) ==
  \E i, j \in RoiIdxs(roiList) : i # j /\ CandPrec(v, i, h) /\ CandPrec(v, j, h)

\* C2 (as claimed): with overlapOpt='cut', every voxel with candidate
\* membership in more than one requested ROI within one hemisphere is removed
\* from all ROI assignments and has value 0 in the returned mask.
C2_OverlapCutFromAll ==
  CutReturned =>
    \A v \in Voxels :
      (\E h \in 0..1 : Overlapping(v, h)) =>
        /\ mask[v] = 0
        /\ \A ir \in RoiIdxs(roiList), h \in 0..1 : ~tmpMask[v][ir][h]

HasCortex == "cortex" \in Range(roiListL(roiList))

\* voxel v is a candidate of a requested ROI other than cortex in hemisphere h
SubRoiCand(v, h) ==
  \E o \in RoiIdxs(roiList) \ {cIdxOf(roiList)} : Cand(v, o, h)

\* C3: when cortex is requested, every voxel that is a candidate of another
\* requested ROI in a hemisphere is out of that hemisphere's cortex mask from
\* the precedence step on, is never valued as cortex in the output, and is
\* counted as cut only when two ROIs other than cortex claim it.
C3_CortexPrecedence ==
  (rpc \in {"second", "returned", "IndexError"} /\ HasCortex) =>
    LET c == cIdxOf(roiList)
    IN /\ \A v \in Voxels, h \in 0..1 :
            SubRoiCand(v, h) => ~tmpMask[v][c][h]
       /\ CutReturned =>
            \A v \in Voxels :
              (\E h \in 0..1 : SubRoiCand(v, h)) => mask[v] \notin {c + 1, -c - 1}
       /\ ncut >= 0 =>
            ncut = Cardinality({ p \in Voxels \X (0..1) :
                     \E i, j \in RoiIdxs(roiList) \ {c} :
                        i # j /\ Cand(p[1], i, p[2]) /\ Cand(p[1], j, p[2]) })

\* cortex and a sub-ROI were requested, and a voxel of the sub-ROI that is
\* also a cortex candidate came out valued as the sub-ROI
C3_Witness ==
  /\ CutReturned /\ HasCortex /\ Len(roiList) >= 2
  /\ \E v \in Voxels, h \in 0..1 :
       /\ SubRoiCand(v, h) /\ Cand(v, cIdxOf(roiList), h)
       /\ mask[v] # 0

\* C4 (as claimed): an overlap policy other than 'cut' never returns normally
\* with a mask and a name-to-number mapping.
C4_NonCutRejected == rpc = "returned" => overlapOpt = "cut"

\* the fiducial vertices of a pack ROI: valid-space index i is fiducial
\* vertex vertIdx[i]
FidVerts(name) ==
  LET vertIdx == vertIdxOf(rsub)
  IN { f \in 0..(nVertsOf(rsub) - 1) : \E i \in rsub.rois[name] : vertIdx[i] = f }

\* the request positions k (1-indexed) whose ROI holds voxel v's nearest vertex
RoisOfVoxel(v) ==
  { k \in 1..Len(roiList) :
      \/ Lower(roiList[k]) = "cortex"
      \/ /\ roiList[k] \in RoiNames(rsub)
         /\ voxIdx[v] \in FidVerts(roiList[k]) }

WithinDst(v) == voxDst[v] < Dst

\* no voxel is a candidate of more than one requested ROI
NoOverlapRequest ==
  \A v \in Voxels : WithinDst(v) => Cardinality(RoisOfVoxel(v)) <= 1

\* C5: with overlapOpt='cut' and no voxel a candidate of more than one ROI,
\* nothing is cut, a voxel within Dst whose nearest vertex is in the k-th
\* requested ROI is valued -k in the left hemisphere mask and +k in the right
\* one, every other voxel is 0, and each requested name maps to its k.
C5_NoOverlapOutput ==
  (CutReturned /\ NoOverlapRequest) =>
    /\ ncut = 0
    /\ \A v \in Voxels :
         IF WithinDst(v) /\ RoisOfVoxel(v) # {}
         THEN LET k == CHOOSE x \in RoisOfVoxel(v) : TRUE
              IN mask[v] = IF Lmask(rsub, voxIdx, v) THEN -k ELSE k
         ELSE mask[v] = 0
    /\ DOMAIN roiIdx = Range(roiList)
    /\ \A k \in 1..Len(roiList) : roiIdx[roiList[k]] = k

\* two ROIs of a subject with a medial wall were rasterized without overlap
\* and a voxel got the second one's number
C5_Witness ==
  /\ CutReturned /\ NoOverlapRequest
  /\ rsub = RSubjMedial /\ Len(roiList) = 2
  /\ \E v \in Voxels : mask[v] \in {2, -2}

\* C9 (as claimed): a voxel is in the left-hemisphere mask, and can only get a
\* negative value, exactly when its nearest-vertex index is below the
\* left-hemisphere vertex count, medial-wall vertices included.
C9_LeftIffLeftVertex ==
  rpc # "start" =>
    \A v \in Voxels :
      /\ \A ir \in RoiIdxs(roiList) :
           /\ tmpMask[v][ir][0] => voxIdx[v] < rsub.ptsL
           /\ tmpMask[v][ir][1] => voxIdx[v] >= rsub.ptsL
      /\ CutReturned =>
           /\ mask[v] < 0 => voxIdx[v] < rsub.ptsL
           /\ mask[v] > 0 => voxIdx[v] >= rsub.ptsL


(***************************************************************************)
(* Vertex adjacency from a triangle list.                                  *)
(***************************************************************************)
\* iter_surfedges: the edges a,b / b,c / a,c of each triangle, in order
iter_surfedges(tris) ==
  [ k \in 1..(3 * Len(tris)) |->
      LET t == tris[((k - 1) \div 3) + 1]
          e == (k - 1) % 3
      IN IF e = 0 THEN <<t[1], t[2]>>
         ELSE IF e = 1 THEN <<t[2], t[3]>>
         ELSE <<t[1], t[3]>> ]

\* (mutant) an edge recorded at its first endpoint only
add_edge_directed(g, u, v) ==
  [ n \in DOMAIN g \cup {u, v} |->
      (IF n \in DOMAIN g THEN g[n] ELSE {}) \cup (IF n = u THEN {v} ELSE {}) ]

\* nx.Graph.add_edge: both endpoints become nodes, each in the other's
\* adjacency; a graph is a function node -> set of neighbours
add_edge(g, u, v) ==
  [ n \in DOMAIN g \cup {u, v} |->
      (IF n \in DOMAIN g THEN g[n] ELSE {})
        \cup (IF n = u THEN {v} ELSE {})
        \cup (IF n = v THEN {u} ELSE {}) ]

RECURSIVE add_edges_from(_, _, _)
\* nx.Graph.add_edges_from over the first n edges. (The one-element sets
\* here and below bind an intermediate result as a value, so that it is
\* computed once, as in the code.)
add_edges_from(g, edges, n) ==
  IF n = 0 THEN g
  ELSE CHOOSE r \in { add_edge(h, edges[n][1], edges[n][2]) :
                       h \in {add_edges_from(g, edges, n - 1)} } : TRUE

\* make_surface_graph
make_surface_graph(tris) ==
  add_edges_from(EmptyMap, iter_surfedges(tris), 3 * Len(tris))

(***************************************************************************)
(* get_tissots_indicatrix: inputs.                                         *)
(***************************************************************************)
\* Fiducial surfaces: verts[i] is vertex i's position, tris the triangles.
\* Every vertex lies in a triangle and every edge has an integer length.
\* MeshT: one 3-4-5 triangle.
MeshT ==
  [ verts |-> [ i \in 0..2 |-> << <<0, 0, 0>>, <<3, 0, 0>>, <<3, 4, 0>> >>[i + 1] ],
    tris |-> << <<0, 1, 2>> >> ]

\* MeshA: two 3-4-5 triangles sharing the edge 1-2; 0 and 3 are 6 apart
\* through vertex 2 and 10 apart through vertex 1.
MeshA ==
  [ verts |-> [ i \in 0..3 |->
                  << <<0, 0, 0>>, <<3, 4, 0>>, <<3, 0, 0>>, <<6, 0, 0>> >>[i + 1] ],
    tris |-> << <<0, 1, 2>>, <<1, 2, 3>> >> ]

\* MeshB: a fan around the apex 1; 0 and 4 are two hops (30) apart through
\* the apex and three hops (18) apart along the base 0-2-3-4.
MeshB ==
  [ verts |-> [ i \in 0..4 |->
                  << <<-9, 0, 0>>, <<0, 12, 0>>, <<-5, 0, 0>>, <<5, 0, 0>>,
                     <<9, 0, 0>> >>[i + 1] ],
    tris |-> << <<0, 1, 2>>, <<1, 2, 3>>, <<1, 3, 4>> >> ]

TSubjects == { [lh |-> MeshA, rh |-> MeshT], [lh |-> MeshT, rh |-> MeshB] }

\* the values of the radius argument
Radii == {0, 4}

\* the values of the spacing argument
Spacings == {8, 20}

\* largest value of the maxfails argument
MaxFails == 2

(***************************************************************************)
(* get_tissots_indicatrix: the computation.                                *)
(***************************************************************************)
\* the integer r with r*r = n (edge lengths of the surfaces are integers)
Sqrt(n) == CHOOSE r \in 0..n : r * r = n

\* np.sqrt(((verts[a] - verts[b])**2).sum()): the length of one hop
HopLen(verts, a, b) ==
  Sqrt( (verts[a][1] - verts[b][1]) * (verts[a][1] - verts[b][1])
      + (verts[a][2] - verts[b][2]) * (verts[a][2] - verts[b][2])
      + (verts[a][3] - verts[b][3]) * (verts[a][3] - verts[b][3]) )

RECURSIVE BfsLevels(_, _, _, _, _)
\* the loop of single_source_shortest_path: breadth-first by hops; a vertex
\* found in a level gets the path of the first vertex of thislevel adjacent
\* to it, thislevel being iterated in ascending order (CPython's order of a
\* dict of small ints); the search stops once cutoff levels are done
BfsLevels(g, paths, thislevel, level, cutoff) ==
  IF thislevel = {} THEN paths
  ELSE LET found == { w \in UNION { g[v] : v \in thislevel } : w \notin DOMAIN paths }
           parent(w) == SetMin({ v \in thislevel : w \in g[v] })
           paths2 == [ w \in DOMAIN paths \cup found |->
                         IF w \in DOMAIN paths THEN paths[w]
                         ELSE Append(paths[parent(w)], w) ]
       IN IF cutoff <= level + 1 THEN paths2
          ELSE CHOOSE r \in { BfsLevels(g, p, f, level + 1, cutoff) :
                               p \in {paths2}, f \in {found} } : TRUE

\* nx.algorithms.single_source_shortest_path(G, source, cutoff):
\* node -> a fewest-hops path from source, for nodes within cutoff hops
single_source_shortest_path(g, source, cutoff) ==
  LET paths0 == [ n \in {source} |-> <<source>> ]
  IN IF cutoff = 0 THEN paths0
     ELSE BfsLevels(g, paths0, {source}, 0, cutoff)

RECURSIVE SumHops(_, _, _)
SumHops(path, verts, n) ==
  IF n <= 1 THEN 0
  ELSE SumHops(path, verts, n - 1) + HopLen(verts, path[n - 1], path[n])

\* get_path_len_mm: the summed length of the path's hops
get_path_len_mm(path, verts) ==
  IF Len(path) = 1 THEN 0 ELSE SumHops(path, verts, Len(path))

RECURSIVE memo_get_path_len_mm(_, _)
\* memo_get_path_len_mm: the prefix's length plus the last hop's
memo_get_path_len_mm(path, verts) ==
  IF Len(path) = 1 THEN 0
  ELSE memo_get_path_len_mm(SubSeq(path, 1, Len(path) - 1), verts)
         + HopLen(verts, path[Len(path) - 1], path[Len(path)])

\* the search depth of the spacing test: spacing/2 + 20 hops (integer
\* division of Python 2 on integer arguments)
SpacingCutoff(sp) == (sp \div 2) + 20

\* (mutant) the spacing test against the centers other than the candidate
ScrapOtherCenters(g, verts, cs, sp, cand) ==
  \E paths \in {single_source_shortest_path(g, cand, SpacingCutoff(sp))} :
    \E i \in 1..Len(cs) :
      /\ cs[i] # cand
      /\ cs[i] \in DOMAIN paths
      /\ get_path_len_mm(paths[cs[i]], verts) < sp

\* lines 507-514: whether the candidate is scrapped
Scrap(g, verts, cs, sp, cand) ==
  \E paths \in {single_source_shortest_path(g, cand, SpacingCutoff(sp))} :
    \E i \in 1..Len(cs) :
      /\ cs[i] \in DOMAIN paths
      /\ get_path_len_mm(paths[cs[i]], verts) < sp

\* accumulator values are kept in units of 1/Scale
Scale == 2000

\* round(1000 * tanh(k)) for an integer k
TanhMilli(k) ==
  LET a == IF k < 0 THEN -k ELSE k
      t == IF a = 0 THEN 0
           ELSE IF a = 1 THEN 762
           ELSE IF a = 2 THEN 964
           ELSE IF a = 3 THEN 995
           ELSE IF a = 4 THEN 999
           ELSE 1000
  IN IF k < 0 THEN -t ELSE t

\* (mutant) the weight without the halving: tanh(radius-d) + 0.5
distfunNoHalf(r, d) == 2 * TanhMilli(r - d) + 1000

\* distfun = lambda d: np.tanh(radius-d)/2 + 0.5, in units of 1/Scale
distfun(r, d) == TanhMilli(r - d) + 1000

\* lines 525-542: the accumulator after painting the disc around cand
Painted(g, verts, arr, r, cand) ==
  CHOOSE painted \in
    { [ vi \in DOMAIN arr |->
          IF vi \in DOMAIN paths
          THEN arr[vi] + distfun(r, memo_get_path_len_mm(paths[vi], verts))
          ELSE arr[vi] ] :
      paths \in {single_source_shortest_path(g, cand, r * 2)} } : TRUE

\* nvert = fidvert.shape[0]
nvertOf(mesh) == Cardinality(DOMAIN mesh.verts)

\* np.zeros((nvert,))
ZeroArray(mesh) == [ i \in DOMAIN mesh.verts |-> 0 ]

\* the outcomes of the last <= n draws
Window(outcomes, n) ==
  IF Len(outcomes) <= n THEN outcomes
  ELSE SubSeq(outcomes, Len(outcomes) - n + 1, Len(outcomes))

(***************************************************************************)
(* get_tissots_indicatrix: the state machine.                              *)
(***************************************************************************)
\* lines 485-496, for the left hemisphere
TisInit ==
  /\ tsub \in TSubjects
  /\ radius \in Radii
  /\ spacing \in Spacings
  /\ maxfails \in 1..MaxFails
  /\ hem = "lh"
  /\ G = make_surface_graph(tsub.lh.tris)
  /\ tissot_array = ZeroArray(tsub.lh)
  /\ numfails = 0
  /\ cnum = 0
  /\ centers = << >>
  /\ centervert = -1
  /\ recent = << >>
  /\ attempts = 0
  /\ tissots = << >>
  /\ allcenters = << >>

Mesh == IF hem = "lh" THEN tsub.lh ELSE tsub.rh

\* (mutant) a rejection that leaves the counter alone
RejectKeepCount(cand) ==
  /\ hem \in {"lh", "rh"}
  /\ numfails < maxfails
  /\ Scrap(G, Mesh.verts, centers, spacing, cand)
  /\ centervert' = cand
  /\ numfails' = numfails
  /\ recent' = Window(Append(recent, FALSE), maxfails)
  /\ attempts' = attempts + 1
  /\ UNCHANGED <<tsub, radius, spacing, maxfails, hem, G, tissot_array, cnum,
                 centers, tissots, allcenters>>
  /\ UNCHANGED <<varsRoi, varsDist, varsAdj>>

\* lines 497-519: one round of the loop that scraps its candidate
Reject(cand) ==
  /\ hem \in {"lh", "rh"}
  /\ numfails < maxfails
  /\ Scrap(G, Mesh.verts, centers, spacing, cand)
  /\ centervert' = cand
  /\ numfails' = numfails + 1
  /\ recent' = Window(Append(recent, FALSE), maxfails)
  /\ attempts' = attempts + 1
  /\ UNCHANGED <<tsub, radius, spacing, maxfails, hem, G, tissot_array, cnum,
                 centers, tissots, allcenters>>
  /\ UNCHANGED <<varsRoi, varsDist, varsAdj>>

\* lines 497-514 and 521-544: one round of the loop that accepts its candidate
Accept(cand) ==
  /\ hem \in {"lh", "rh"}
  /\ numfails < maxfails
  /\ ~Scrap(G, Mesh.verts, centers, spacing, cand)
  /\ centervert' = cand
  /\ centers' = Append(centers, cand)
  /\ numfails' = 0
  /\ tissot_array' = Painted(G, Mesh.verts, tissot_array, radius, cand)
  /\ cnum' = cnum + 1
  /\ recent' = Window(Append(recent, TRUE), maxfails)
  /\ attempts' = attempts + 1
  /\ UNCHANGED <<tsub, radius, spacing, maxfails, hem, G, tissots, allcenters>>
  /\ UNCHANGED <<varsRoi, varsDist, varsAdj>>

\* lines 546-547 for "lh", then lines 488-496 for "rh"
NextHemisphere ==
  /\ hem = "lh"
  /\ ~(numfails < maxfails)
  /\ tissots' = Append(tissots, tissot_array)
  /\ allcenters' = Append(allcenters, centers)
  /\ hem' = "rh"
  /\ G' = make_surface_graph(tsub.rh.tris)
  /\ tissot_array' = ZeroArray(tsub.rh)
  /\ numfails' = 0
  /\ cnum' = 0
  /\ centers' = << >>
  /\ centervert' = -1
  /\ recent' = << >>
  /\ attempts' = 0
  /\ UNCHANGED <<tsub, radius, spacing, maxfails>>
  /\ UNCHANGED <<varsRoi, varsDist, varsAdj>>

\* lines 546-547 for "rh", and the return
ReturnTissots ==
  /\ hem = "rh"
  /\ ~(numfails < maxfails)
  /\ tissots' = Append(tissots, tissot_array)
  /\ allcenters' = Append(allcenters, centers)
  /\ hem' = "done"
  /\ UNCHANGED <<tsub, radius, spacing, maxfails, G, tissot_array, numfails, cnum,
                 centers, centervert, recent, attempts>>
  /\ UNCHANGED <<varsRoi, varsDist, varsAdj>>

\* np.random.randint(nvert): any vertex index
TisNext ==
  \/ \E cand \in DOMAIN Mesh.verts : Reject(cand)
  \/ \E cand \in DOMAIN Mesh.verts : Accept(cand)
  \/ NextHemisphere
  \/ ReturnTissots


(***************************************************************************)
(* get_tissots_indicatrix: claims.                                         *)
(***************************************************************************)
Sampling == hem \in {"lh", "rh"}

RECURSIVE WalkLens(_, _, _, _, _)
\* the lengths, in world units, of the walks of at most k edges from a to b
WalkLens(g, verts, a, b, k) ==
  (IF a = b THEN {0} ELSE {})
    \cup (IF k = 0 THEN {}
          ELSE UNION { { HopLen(verts, a, w) + l : l \in WalkLens(g, verts, w, b, k - 1) } :
                       w \in g[a] })

\* the lengths of the paths along mesh edges between two vertices of the
\* hemisphere (a shortest path has fewer edges than the mesh has vertices)
PathLens(a, b) == WalkLens(G, Mesh.verts, a, b, nvertOf(Mesh) - 1)

\* C1 (as claimed): at every point of a sampling run no two accepted centers
\* of the hemisphere have a shortest-path distance, in world units along mesh
\* edges, under spacing.
C1_CentersSpacedApart ==
  Sampling =>
    \A i, j \in 1..Len(centers) :
      i < j => \A l \in PathLens(centers[i], centers[j]) : l >= spacing

\* C6: every accumulator entry is non-negative and at most the number of
\* centers accepted so far in its hemisphere (Scale is the weight 1), in the
\* hemisphere being sampled and in the returned arrays.
C6_AccumulatorBounded ==
  (Sampling \/ hem = "done") =>
    /\ \A v \in DOMAIN tissot_array :
         0 <= tissot_array[v] /\ tissot_array[v] <= Scale * Len(centers)
    /\ Len(tissots) = Len(allcenters)
    /\ \A k \in 1..Len(tissots) : \A v \in DOMAIN tissots[k] :
         0 <= tissots[k][v] /\ tissots[k][v] <= Scale * Len(allcenters[k])

\* two discs overlap: a vertex holds more than one full weight
C6_Witness ==
  /\ Sampling /\ Len(centers) >= 2
  /\ \E v \in DOMAIN tissot_array : tissot_array[v] > Scale

RECURSIVE TrailingRejects(_)
\* the number of rejections at the end of a list of outcomes
TrailingRejects(outcomes) ==
  IF outcomes = << >> \/ outcomes[Len(outcomes)] THEN 0
  ELSE 1 + TrailingRejects(SubSeq(outcomes, 1, Len(outcomes) - 1))

\* the counter is the number of consecutive rejections since the last
\* acceptance or the start
C10_Counter ==
  (Sampling \/ hem = "done") =>
    /\ numfails = TrailingRejects(recent)
    /\ numfails <= maxfails

\* a step of the sampler, in terms of the candidate it drew
C10_Step ==
  LET drew == attempts' = attempts + 1
      tooClose == Scrap(G, Mesh.verts, centers, spacing, centervert')
  IN /\ (Sampling /\ hem' = hem) => drew
     /\ (drew /\ tooClose) =>
          /\ numfails' = numfails + 1
          /\ centers' = centers
          /\ tissot_array' = tissot_array
     /\ (drew /\ ~tooClose) =>
          /\ numfails' = 0
          /\ centers' = Append(centers, centervert')
     /\ drew => numfails < maxfails
     /\ (Sampling /\ hem' # hem) =>
          /\ numfails = maxfails
          /\ recent = [ i \in 1..maxfails |-> FALSE ]
          /\ allcenters' = Append(allcenters, centers)

\* C10: per hemisphere the failure counter equals the number of consecutive
\* rejections since the last acceptance; a rejection adds one and changes
\* neither the centers nor the accumulator; an acceptance resets it and
\* appends exactly the candidate; the loop runs while the counter is below
\* maxfails and ends when it reaches maxfails, the last maxfails candidates
\* all rejected.
C10_FailureCounter == []C10_Counter /\ [][C10_Step]_vars

\* a hemisphere's loop has ended after rejections, an acceptance that reset
\* the counter, and maxfails further rejections
C10_Witness ==
  /\ hem = "rh" /\ maxfails >= 2 /\ numfails = maxfails
  /\ Len(centers) >= 2
  /\ attempts > Len(centers) + maxfails

\* no vertex is twice in a list of centers
Distinct(cs) == \A i, j \in 1..Len(cs) : cs[i] = cs[j] => i = j

\* the centers are pairwise distinct, at most one per vertex, and the loop of
\* the hemisphere has run at most (nvert + 1) * maxfails rounds
C12_Bounded ==
  (Sampling \/ hem = "done") =>
    /\ Distinct(centers)
    /\ Len(centers) <= nvertOf(Mesh)
    /\ attempts <= (nvertOf(Mesh) + 1) * maxfails
    /\ \A k \in 1..Len(allcenters) : Distinct(allcenters[k])

\* a round whose candidate is an accepted center rejects it
C12_SelfRejected ==
  (attempts' = attempts + 1 /\ centervert' \in Range(centers)) =>
    /\ get_path_len_mm(<<centervert'>>, Mesh.verts) < spacing
    /\ centers' = centers
    /\ numfails' = numfails + 1

\* C12: with spacing > 0 and maxfails >= 1, for every sequence of draws the
\* sampling loop of each hemisphere ends with no cap on the attempts: a
\* candidate equal to an accepted center is always rejected (its path to
\* itself has length 0 < spacing), so the centers are pairwise distinct, at
\* most one per vertex, and the rounds number at most
\* (number of vertices + 1) * maxfails.
C12_Terminates ==
  /\ []C12_Bounded
  /\ [][C12_SelfRejected]_vars
  /\ <>(hem = "done")

\* the call has returned after a round of the right hemisphere drew one of
\* its accepted centers again and scrapped it
C12_Witness ==
  /\ hem = "done" /\ spacing > 0 /\ maxfails >= 1
  /\ Len(centers) >= 2
  /\ centervert \in Range(centers)
  /\ recent # << >> /\ ~recent[Len(recent)]
  /\ attempts > Len(centers)

(***************************************************************************)
(* get_flatmap_distortion(type="areal"): floating-point values.            *)
(* A float is  [k |-> "fin", n, d]  (the rational n/d, d > 0),             *)
(* [k |-> "inf"], [k |-> "nan"], or [k |-> "max"], the largest finite      *)
(* float. Areas are never negative, so no negative infinity arises.        *)
(***************************************************************************)
Fin(n, d) == [k |-> "fin", n |-> n, d |-> d]

Inf == [k |-> "inf"]

NaN == [k |-> "nan"]

MaxFloat == [k |-> "max"]

IsZero(x) == x.k = "fin" /\ x.n = 0

\* x / y for non-negative finite x, y: x/0 is inf, 0/0 is nan (numpy warns
\* and goes on)
FDiv(x, y) ==
  IF y.n = 0 THEN (IF x.n = 0 THEN NaN ELSE Inf)
  ELSE Fin(x.n * y.d, x.d * y.n)

\* x + y
FAdd(x, y) ==
  IF x.k = "nan" \/ y.k = "nan" THEN NaN
  ELSE IF x.k = "inf" \/ y.k = "inf" THEN Inf
  ELSE Fin(x.n * y.d + y.n * x.d, x.d * y.d)

\* x / c for an integer count c >= 0
FDivCount(x, c) ==
  IF x.k = "nan" THEN NaN
  ELSE IF x.k = "inf" THEN Inf
  ELSE IF c = 0 THEN (IF x.n = 0 THEN NaN ELSE Inf)
  ELSE Fin(x.n, x.d * c)

\* np.nan_to_num: nan -> 0, inf -> the largest finite float
nan_to_num(x) ==
  IF x.k = "nan" THEN Fin(0, 1)
  ELSE IF x.k = "inf" THEN MaxFloat
  ELSE x

\* np.log of a positive float, kept as its sign and argument: the log is 0
\* exactly at 1, negative below and positive above
Log(x) ==
  [ sgn |-> IF x.k = "max" THEN 1
            ELSE IF x.n = x.d THEN 0
            ELSE IF x.n < x.d THEN -1 ELSE 1,
    of |-> x ]

(***************************************************************************)
(* get_flatmap_distortion: inputs. fid and flat are the vertex positions   *)
(* of the fiducial and the flat surface (same indexing), tris the flat     *)
(* surface's triangles. All surfaces lie in the plane z = 0, so every      *)
(* cross product has an integer norm.                                      *)
(***************************************************************************)
Square4 == [ i \in 0..3 |-> << <<0, 0, 0>>, <<2, 0, 0>>, <<2, 2, 0>>, <<0, 2, 0>> >>[i + 1] ]

Wide4 == [ i \in 0..3 |-> << <<0, 0, 0>>, <<4, 0, 0>>, <<4, 2, 0>>, <<0, 2, 0>> >>[i + 1] ]

Line4 == [ i \in 0..3 |-> << <<0, 0, 0>>, <<1, 0, 0>>, <<2, 0, 0>>, <<3, 0, 0>> >>[i + 1] ]

\* isometric; every vertex in one triangle only, vertex 2 in none
DIsoGap == [ fid |-> Square4, flat |-> Square4, tris |-> << <<0, 1, 3>> >> ]

\* isometric; the highest vertex 3 in no triangle
DIsoTail == [ fid |-> Square4, flat |-> Square4, tris |-> << <<0, 1, 2>> >> ]

\* isometric; vertices 0 and 2 in both triangles
DIsoQuad == [ fid |-> Square4, flat |-> Square4, tris |-> << <<0, 1, 2>>, <<0, 2, 3>> >> ]

\* isometric; the shared vertices in different columns of the two triangles
DIsoFlip == [ fid |-> Square4, flat |-> Square4, tris |-> << <<0, 1, 2>>, <<2, 3, 0>> >> ]

\* the flat surface twice as wide as the fiducial one
DWide == [ fid |-> Square4, flat |-> Wide4, tris |-> << <<0, 1, 2>>, <<2, 3, 0>> >> ]

\* the fiducial surface collapsed to a line: zero fiducial areas
DFidFlatLine == [ fid |-> Line4, flat |-> Square4, tris |-> << <<0, 1, 2>>, <<2, 3, 0>> >> ]

\* the flat surface collapsed to a line: zero flat areas
DFlatLine == [ fid |-> Square4, flat |-> Line4, tris |-> << <<0, 1, 2>>, <<2, 3, 0>> >> ]

\* both collapsed: 0/0
DBothLine == [ fid |-> Line4, flat |-> Line4, tris |-> << <<0, 1, 2>>, <<2, 3, 0>> >> ]

DMeshes == {DIsoGap, DIsoTail, DIsoQuad, DIsoFlip, DWide, DFidFlatLine, DFlatLine, DBothLine}

DSubjects == { [lh |-> a, rh |-> b] : a \in DMeshes, b \in DMeshes }

(***************************************************************************)
(* get_flatmap_distortion(type="areal"): the computation.                  *)
(***************************************************************************)
\* np.linalg.norm(np.cross(a-b, a-c))
CrossNorm(a, b, c) ==
  LET u == << a[1] - b[1], a[2] - b[2], a[3] - b[3] >>
      w == << a[1] - c[1], a[2] - c[2], a[3] - c[3] >>
      x == u[2] * w[3] - u[3] * w[2]
      y == u[3] * w[1] - u[1] * w[3]
      z == u[1] * w[2] - u[2] * w[1]
  IN Sqrt(x * x + y * y + z * z)

\* triareas = lambda tr,v: [norm(cross(a-b, a-c))/2 for a,b,c in v[tr,:]]
triareas(tr, v) ==
  [ i \in 1..Len(tr) |-> Fin(CrossNorm(v[tr[i][1]], v[tr[i][2]], v[tr[i][3]]), 2) ]

\* flatareas/fidareas, per triangle
AreaRatios(fla, fia) == [ i \in 1..Len(fla) |-> FDiv(fla[i], fia[i]) ]

\* vertratios[flattri[:,c]] += ratios : the right side is computed from the
\* old array and then stored, so a vertex that is in column c of several
\* triangles gets its old value plus the ratio of the last of them
AddColumn(vr, tr, ratios, c) ==
  [ v \in DOMAIN vr |->
      LET rows == { i \in 1..Len(tr) : tr[i][c] = v }
      IN IF rows = {} THEN vr[v] ELSE FAdd(vr[v], ratios[SetMax(rows)]) ]

\* lines 411-414
Accumulated(nv, tr, ratios) ==
  AddColumn(AddColumn(AddColumn([ v \in 0..(nv - 1) |-> Fin(0, 1) ], tr, ratios, 1),
                      tr, ratios, 2), tr, ratios, 3)

\* np.bincount(flattri.ravel()): one entry per index up to the largest used
bincount(tr) ==
  [ v \in 0..SetMax(Unique(tr)) |->
      Cardinality({ p \in (1..Len(tr)) \X (1..3) : tr[p[1]][p[2]] = v }) ]

\* whether "vertratios /= bincount" raises ValueError: the two arrays differ
\* in length and the count array is not of length 1
DivideRaises(vr, cnt) ==
  /\ Cardinality(DOMAIN cnt) # Cardinality(DOMAIN vr)
  /\ Cardinality(DOMAIN cnt) # 1

\* vertratios /= np.bincount(flattri.ravel()) (a one-entry count broadcasts)
Divided(vr, cnt) ==
  [ v \in DOMAIN vr |->
      FDivCount(vr[v], IF Cardinality(DOMAIN cnt) = 1 THEN cnt[0] ELSE cnt[v]) ]

(***************************************************************************)
(* get_flatmap_distortion(type="areal"): the state machine.                *)
(***************************************************************************)
DistInit ==
  /\ dsub \in DSubjects
  /\ dhem = "lh"
  /\ dpc = "load"
  /\ fidareas = << >>
  /\ flatareas = << >>
  /\ vertratios = << >>
  /\ distortions = << >>

DMesh == IF dhem = "lh" THEN dsub.lh ELSE dsub.rh

\* lines 401-409
TriAreas ==
  /\ dpc = "load"
  /\ fidareas' = triareas(DMesh.tris, DMesh.fid)
  /\ flatareas' = triareas(DMesh.tris, DMesh.flat)
  /\ dpc' = "areas"
  /\ UNCHANGED <<dsub, dhem, vertratios, distortions>>
  /\ UNCHANGED <<varsRoi, varsTis, varsAdj>>

\* lines 411-414
Accumulate ==
  /\ dpc = "areas"
  /\ vertratios' = Accumulated(Cardinality(DOMAIN DMesh.fid), DMesh.tris,
                               AreaRatios(flatareas, fidareas))
  /\ dpc' = "summed"
  /\ UNCHANGED <<dsub, dhem, fidareas, flatareas, distortions>>
  /\ UNCHANGED <<varsRoi, varsTis, varsAdj>>

\* line 415
Divide ==
  /\ dpc = "summed"
  /\ ~DivideRaises(vertratios, bincount(DMesh.tris))
  /\ vertratios' = Divided(vertratios, bincount(DMesh.tris))
  /\ dpc' = "divided"
  /\ UNCHANGED <<dsub, dhem, fidareas, flatareas, distortions>>
  /\ UNCHANGED <<varsRoi, varsTis, varsAdj>>

\* line 415, raising ValueError out of get_flatmap_distortion
DivideValueError ==
  /\ dpc = "summed"
  /\ DivideRaises(vertratios, bincount(DMesh.tris))
  /\ dpc' = "ValueError"
  /\ UNCHANGED <<dsub, dhem, fidareas, flatareas, vertratios, distortions>>
  /\ UNCHANGED <<varsRoi, varsTis, varsAdj>>

\* line 416
NanToNum ==
  /\ dpc = "divided"
  /\ vertratios' = [ v \in DOMAIN vertratios |-> nan_to_num(vertratios[v]) ]
  /\ dpc' = "finite"
  /\ UNCHANGED <<dsub, dhem, fidareas, flatareas, distortions>>
  /\ UNCHANGED <<varsRoi, varsTis, varsAdj>>

\* line 417
ZeroToOne ==
  /\ dpc = "finite"
  /\ vertratios' = [ v \in DOMAIN vertratios |->
                       IF IsZero(vertratios[v]) THEN Fin(1, 1) ELSE vertratios[v] ]
  /\ dpc' = "nonzero"
  /\ UNCHANGED <<dsub, dhem, fidareas, flatareas, distortions>>
  /\ UNCHANGED <<varsRoi, varsTis, varsAdj>>

\* line 418, then the next hemisphere or (line 444) the return
AppendLog ==
  /\ dpc = "nonzero"
  /\ distortions' = Append(distortions, [ v \in DOMAIN vertratios |-> Log(vertratios[v]) ])
  /\ IF dhem = "lh" THEN dhem' = "rh" /\ dpc' = "load"
                    ELSE dhem' = "done" /\ dpc' = "returned"
  /\ UNCHANGED <<dsub, fidareas, flatareas, vertratios>>
  /\ UNCHANGED <<varsRoi, varsTis, varsAdj>>

DistNext ==
  \/ TriAreas
  \/ Accumulate
  \/ Divide
  \/ DivideValueError
  \/ NanToNum
  \/ ZeroToOne
  \/ AppendLog

(***************************************************************************)
(* get_flatmap_distortion(type="areal"): claims.                           *)
(***************************************************************************)
\* every triangle has the same non-zero area on the flat and the fiducial
\* surface
Isometric(m) ==
  \A i \in 1..Len(m.tris) :
    LET fl == CrossNorm(m.flat[m.tris[i][1]], m.flat[m.tris[i][2]], m.flat[m.tris[i][3]])
        fi == CrossNorm(m.fid[m.tris[i][1]], m.fid[m.tris[i][2]], m.fid[m.tris[i][3]])
    IN fl = fi /\ fl # 0

\* the surfaces of the k-th returned array
DMeshOf(k) == IF k = 1 THEN dsub.lh ELSE dsub.rh

\* C7 (as claimed): when every triangle has the same non-zero area flat and
\* fiducial, the call does not fail and the distortion is 0 at every vertex,
\* vertices in no triangle included.
C7_IsometricZero ==
  /\ (dpc = "ValueError") => ~Isometric(DMesh)
  /\ \A k \in 1..Len(distortions) :
       Isometric(DMeshOf(k)) =>
         \A v \in DOMAIN distortions[k] : distortions[k][v].sgn = 0

\* some triangle has zero area on the fiducial or on the flat surface
Degenerate(m) ==
  \E i \in 1..Len(m.tris) :
    \/ CrossNorm(m.flat[m.tris[i][1]], m.flat[m.tris[i][2]], m.flat[m.tris[i][3]]) = 0
    \/ CrossNorm(m.fid[m.tris[i][1]], m.fid[m.tris[i][2]], m.fid[m.tris[i][3]]) = 0

\* every vertex index is a corner of some triangle
AllVertsUsed(m) == Unique(m.tris) = DOMAIN m.fid

\* the per-vertex area ratios of surface m as line 415 leaves them
RatiosOf(m) ==
  Divided(Accumulated(Cardinality(DOMAIN m.fid), m.tris,
                      AreaRatios(triareas(m.tris, m.flat), triareas(m.tris, m.fid))),
          bincount(m.tris))

\* a ratio that is zero, infinite or not a number
ZeroOrNonFinite(x) == x.k \in {"inf", "nan"} \/ IsZero(x)

\* C11 (as claimed): a surface with a zero-area triangle (fiducial, flat or
\* both) does not make the call fail, and every vertex whose area ratio is
\* zero, infinite or not-a-number gets distortion exactly 0 in the output.
C11_DegenerateZero ==
  /\ (dpc = "ValueError") => ~(Degenerate(DMesh) /\ AllVertsUsed(DMesh))
  /\ \A k \in 1..Len(distortions) :
       Degenerate(DMeshOf(k)) =>
         \A v \in DOMAIN distortions[k] :
           ZeroOrNonFinite(RatiosOf(DMeshOf(k))[v]) => distortions[k][v].sgn = 0

(***************************************************************************)
(* Vertex adjacency: get_curvature's neighbour map and the surface graph,  *)
(* on every triangle list.                                                 *)
(***************************************************************************)
\* number of vertices the triangles draw their corners from
NAdjVerts == 3

\* longest triangle list
MaxPolys == 2

\* the inner loop "for pt in poly": faces[pt] |= set(poly)
faces_add(f, poly) ==
  LET pts == {poly[1], poly[2], poly[3]}
  IN [ pt \in DOMAIN f \cup pts |->
         (IF pt \in DOMAIN f THEN f[pt] ELSE {}) \cup (IF pt \in pts THEN pts ELSE {}) ]

RECURSIVE faces_of(_, _)
\* get_curvature, lines 327-332, over the first n triangles
faces_of(tris, n) ==
  IF n = 0 THEN EmptyMap ELSE faces_add(faces_of(tris, n - 1), tris[n])

AdjInit ==
  /\ trilist = << >>
  /\ faces = EmptyMap
  /\ graph = EmptyMap

\* one more triangle in the list, and both adjacency structures built from it
AddPoly(a, b, c) ==
  /\ Len(trilist) < MaxPolys
  /\ trilist' = Append(trilist, <<a, b, c>>)
  /\ faces' = faces_of(trilist', Len(trilist'))
  /\ graph' = make_surface_graph(trilist')
  /\ UNCHANGED <<varsRoi, varsTis, varsDist>>

AdjNext == \E a, b, c \in 0..(NAdjVerts - 1) : AddPoly(a, b, c)

Symmetric(adj) ==
  \A a \in DOMAIN adj : \A b \in adj[a] : b \in DOMAIN adj /\ a \in adj[b]

\* C8: the adjacency built from a triangle list is symmetric, in the
\* neighbour map of get_curvature and in the surface graph of
\* get_flatmap_distortion and get_tissots_indicatrix: whenever b is recorded
\* as adjacent to a, a is recorded as adjacent to b; and both record every
\* triangle edge.
C8_AdjacencySymmetric ==
  /\ Symmetric(faces)
  /\ Symmetric(graph)
  /\ \A i \in 1..Len(trilist) : \A j, k \in 1..3 :
       j # k => /\ trilist[i][k] \in faces[trilist[i][j]]
                /\ trilist[i][k] \in graph[trilist[i][j]]

\* two different triangles are in the list and two distinct vertices are
\* adjacent in both structures
C8_Witness ==
  /\ Len(trilist) = 2 /\ trilist[1] # trilist[2]
  /\ \E a \in DOMAIN graph : \E b \in graph[a] : a # b /\ b \in faces[a]

(***************************************************************************)
(* Specifications: one per routine; the variables of the other routines    *)
(* stay idle.                                                              *)
(***************************************************************************)
RoiIdle ==
  /\ rsub = RSubjFull /\ roiArg = [kind |-> "None"] /\ overlapOpt = "cut"
  /\ Dst = DstDefault /\ voxIdx = ZeroMask /\ voxDst = ZeroMask
  /\ roiList = << >> /\ tmpMask = << >> /\ mask = << >> /\ roiIdx = EmptyMap
  /\ ncut = -1 /\ rpc = "idle"

TisIdle ==
  /\ tsub = [lh |-> MeshT, rh |-> MeshT] /\ radius = 0 /\ spacing = 0
  /\ maxfails = 0 /\ hem = "idle" /\ G = EmptyMap /\ tissot_array = EmptyMap
  /\ numfails = 0 /\ cnum = 0 /\ centers = << >> /\ centervert = -1
  /\ recent = << >> /\ attempts = 0 /\ tissots = << >> /\ allcenters = << >>

DistIdle ==
  /\ dsub = << >> /\ dhem = "idle" /\ dpc = "idle" /\ fidareas = << >>
  /\ flatareas = << >> /\ vertratios = << >> /\ distortions = << >>

AdjIdle == trilist = << >> /\ faces = EmptyMap /\ graph = EmptyMap

InitRoi == RoiInit /\ TisIdle /\ DistIdle /\ AdjIdle

\* get_roi_masks on every input of the model
SpecRoi == InitRoi /\ [][RoiNext]_vars

InitDist == DistInit /\ RoiIdle /\ TisIdle /\ AdjIdle

\* get_flatmap_distortion(type="areal") on every pair of surfaces
SpecDist == InitDist /\ [][DistNext]_vars

InitAdj == AdjInit /\ RoiIdle /\ TisIdle /\ DistIdle

\* the adjacency builders on every triangle list
SpecAdj == InitAdj /\ [][AdjNext]_vars

InitTissot == TisInit /\ RoiIdle /\ DistIdle /\ AdjIdle

\* get_tissots_indicatrix on every input and every sequence of draws
SpecTissot == InitTissot /\ [][TisNext]_vars

\* get_tissots_indicatrix as a running call: the function is sequential code
\* that nothing suspends, so whenever a round of the loop, the move to the
\* next hemisphere or the return can be executed, it is
SpecTissotRun == InitTissot /\ [][TisNext]_vars /\ WF_vars(TisNext)

====
